---------------------------- MODULE Spec2Model ----------------------------
(***************************************************************************)
(* Model of scrubDeletedCoreDocumentVersionsCheck and scrubDocument        *)
(* (src/unnamed/part_000, lines 170-363): the run that garbage-collects    *)
(* the blobs and the data_sources_documents rows of deleted document       *)
(* versions.                                                               *)
(*                                                                         *)
(* Strings are sequences of one-character strings, so that the template    *)
(* literals of the code (the uid, the blob path) and the prefix match of   *)
(* getFiles are computed, not assumed.                                     *)
(*                                                                         *)
(* One action is one run-to-completion step of the JavaScript event loop:  *)
(* the completion of one awaited external call followed by the synchronous *)
(* code up to the next await.                                              *)
(***************************************************************************)
EXTENDS Integers, Sequences, FiniteSets, TLC

(***************************************************************************)
(* Bounds of the model.                                                    *)
(***************************************************************************)
\* Rows of data_sources_documents in the initial state (ids 1..MaxRows).
MaxRows == 3
\* Values of the created column in the initial state (1..MaxCreated).
MaxCreated == 2
\* Objects the write path stored under one path prefix.
MaxObjects == 2
\* Size of a chunk. The code uses 32 (part_000:210-211); the model scales it
\* down so that a run of MaxRows candidates has more than one chunk.
ChunkSize == 2
\* Versions the write path may insert while a run is in progress (SpecIngest).
MaxIngest == 1

(***************************************************************************)
(* Strings.                                                                *)
(***************************************************************************)
Digits == <<"0", "1", "2", "3", "4", "5", "6", "7", "8", "9">>

RECURSIVE NumStr(_)
\* `${n}` for a non-negative integer n.
NumStr(n) ==
    IF n < 10 THEN <<Digits[n + 1]>>
    ELSE NumStr(n \div 10) \o <<Digits[(n % 10) + 1]>>

\* s.startsWith(p): the match getFiles({prefix: p}) applies to object names.
StartsWith(s, p) == Len(p) <= Len(s) /\ SubSeq(s, 1, Len(p)) = p

(***************************************************************************)
(* The inputs: the tables and the bucket.                                  *)
(***************************************************************************)
DataSourceIds == {1, 2}
DocumentIds == {<<"d">>}
Hashes == {<<"a">>, <<"b">>}
Statuses == {"deleted", "active"}

\* The data_sources table. Source 2 is referenced by documents and has no row.
DataSourceTable ==
    {[id |-> 1, project |-> 7, internal_id |-> <<"i">>]}

\* hasher.update(Buffer.from(document_id)); hasher.digest("hex"): a fixed
\* length hex string, distinct for distinct document ids.
DocumentIdHash(document_id) ==
    CASE document_id = <<"d">> -> <<"e", "3">>
      [] OTHER -> <<"0", "0">>

\* `${dataSource.project}/${dataSource.internal_id}/${documentIdHash}/${hash}`
PathOf(dataSource, document_id, hash) ==
    NumStr(dataSource.project) \o <<"/">> \o dataSource.internal_id \o <<"/">>
        \o DocumentIdHash(document_id) \o <<"/">> \o hash

\* `${data_source}-${document_id}-${hash}`
UidOf(data_source, document_id, hash) ==
    NumStr(data_source) \o <<"-">> \o document_id \o <<"-">> \o hash

\* The objects the write path stored for one version: MaxObjects objects
\* named <path>/<k>.
ObjectNames(path) == {path \o <<"/">> \o NumStr(k) : k \in 1..MaxObjects}

RowAttrs ==
    [created : 1..MaxCreated, data_source : DataSourceIds,
     document_id : DocumentIds, hash : Hashes, status : Statuses]

MkRow(id, a) ==
    [id |-> id, created |-> a.created, data_source |-> a.data_source,
     document_id |-> a.document_id, hash |-> a.hash, status |-> a.status]

\* Process environments: all three variables set, or one of them missing.
EnvChoices ==
    {[uri |-> TRUE, bucket |-> TRUE, account |-> TRUE],
     [uri |-> FALSE, bucket |-> TRUE, account |-> TRUE],
     [uri |-> TRUE, bucket |-> FALSE, account |-> TRUE],
     [uri |-> TRUE, bucket |-> TRUE, account |-> FALSE]}

(***************************************************************************)
(* State.                                                                  *)
(***************************************************************************)
VARIABLES
    env,          \* CORE_DATABASE_URI, DUST_DATA_SOURCES_BUCKET, SERVICE_ACCOUNT set?
    rows,         \* table data_sources_documents
    blobs,        \* names of the objects of the bucket
    runPc,        \* position of scrubDeletedCoreDocumentVersionsCheck
    deletedDocuments, \* the rows fetched at part_000:193-203
    chunksStarted, \* chunks whose calls were started: i + 1 while chunk i is awaited
    seen,         \* the Set<string> of part_000:214
    deletedCount, \* part_000:215
    reported,     \* arguments reportSuccess was called with, in order
    unitPc,       \* position of the scrubDocument call of each candidate
    files,        \* per call: names returned by getFiles
    deleteCalls,  \* per call: names f.delete() was called on
    pendingDeletes, \* per call: f.delete() calls that have not settled
    failedDeletes, \* per call: names whose f.delete() failed
    lastRun       \* <<>> in the first run of the process state, else a
                  \* one-element sequence: how the run before ended

vars ==
    <<env, rows, blobs, runPc, deletedDocuments, chunksStarted, seen,
      deletedCount, reported, unitPc, files, deleteCalls, pendingDeletes,
      failedDeletes, lastRun>>

\* Candidates are numbered by their position in deletedDocuments.
Units == 1..MaxRows

(***************************************************************************)
(* Queries.                                                                *)
(***************************************************************************)
RECURSIVE SortById(_)
SortById(S) ==
    IF S = {} THEN <<>>
    ELSE LET r == CHOOSE x \in S : \A y \in S : x.id <= y.id
         IN <<r>> \o SortById(S \ {r})

\* SELECT * FROM data_sources_documents WHERE status = 'deleted'
\* The order of the result is the order of the ids; Init ranges over every
\* assignment of column values to ids, so every order of candidates occurs.
SelectDeleted(table) == SortById({r \in table : r.status = "deleted"})

\* MoreRecentSameHash with created > :deletedAt in place of >=.
MoreRecentSameHashStrict(table, data_source, document_id, hash, deletedAt) ==
    {r \in table :
        /\ r.data_source = data_source
        /\ r.document_id = document_id
        /\ r.hash = hash
        /\ r.status # "deleted"
        /\ r.created > deletedAt}

\* SELECT id ... WHERE data_source = :data_source AND document_id =
\* :document_id AND hash = :hash AND status != 'deleted' AND created >=
\* :deletedAt LIMIT 1
MoreRecentSameHash(table, data_source, document_id, hash, deletedAt) ==
    {r \in table :
        /\ r.data_source = data_source
        /\ r.document_id = document_id
        /\ r.hash = hash
        /\ r.status # "deleted"
        /\ r.created >= deletedAt}

\* SELECT * FROM data_sources WHERE id = :data_source
SelectDataSource(data_source) == {s \in DataSourceTable : s.id = data_source}

\* PurgeDeleted with a DELETE that removes no row.
PurgeDeletedNothing(table, data_source, document_id, hash) == table

\* PurgeDeleted without the condition on status.
PurgeDeletedAnyStatus(table, data_source, document_id, hash) ==
    {r \in table :
        ~(/\ r.data_source = data_source
          /\ r.document_id = document_id
          /\ r.hash = hash)}

\* DELETE FROM data_sources_documents WHERE data_source = :data_source AND
\* document_id = :document_id AND hash = :hash AND status = 'deleted'
PurgeDeleted(table, data_source, document_id, hash) ==
    {r \in table :
        ~(/\ r.data_source = data_source
          /\ r.document_id = document_id
          /\ r.hash = hash
          /\ r.status = "deleted")}

\* bucket.getFiles({prefix: path})
GetFiles(bucket, path) == {f \in bucket : StartsWith(f, path)}

(***************************************************************************)
(* Chunks.                                                                 *)
(***************************************************************************)
\* NumChunks for a loop that stops before a last, shorter slice.
NumChunksFloor(n) == n \div ChunkSize

\* for (let i = 0; i < n; i += ChunkSize) chunks.push(slice(i, i + ChunkSize)):
\* the number of chunks of n candidates.
NumChunks(n) == (n + ChunkSize - 1) \div ChunkSize

\* ChunkUnits with slices one candidate longer than the chunk size.
ChunkUnitsWide(i, n) ==
    {u \in 1..n : i * ChunkSize < u /\ u <= (i + 1) * ChunkSize + 1}

\* The positions (1-based) of the candidates of chunk i (0-based) among n.
ChunkUnits(i, n) ==
    {u \in 1..n : i * ChunkSize < u /\ u <= (i + 1) * ChunkSize}

(***************************************************************************)
(* Initial state.                                                          *)
(***************************************************************************)
\* The table with the rows 1..n, row i having the column values a[i].
MkTable(n, a) == {MkRow(i, a[i]) : i \in 1..n}

\* The objects of the versions of a table whose source has a row.
StoredObjects(table) ==
    UNION {ObjectNames(PathOf(s, r.document_id, r.hash)) :
             <<r, s>> \in {p \in table \X DataSourceTable :
                             p[2].id = p[1].data_source}}

Init ==
    /\ env \in EnvChoices
    /\ \E n \in 0..MaxRows : \E a \in [1..n -> RowAttrs] : rows = MkTable(n, a)
    /\ blobs = StoredObjects(rows)
    /\ runPc = "Fetching"
    /\ deletedDocuments = <<>>
    /\ chunksStarted = 0
    /\ seen = {}
    /\ deletedCount = 0
    /\ reported = <<>>
    /\ unitPc = [u \in Units |-> "idle"]
    /\ files = [u \in Units |-> {}]
    /\ deleteCalls = [u \in Units |-> {}]
    /\ pendingDeletes = [u \in Units |-> {}]
    /\ failedDeletes = [u \in Units |-> {}]
    /\ lastRun = <<>>

(***************************************************************************)
(* scrubDeletedCoreDocumentVersionsCheck (part_000:180-248).               *)
(***************************************************************************)
\* Outcomes of a scrubDocument call: it returned false (duplicate, skipped),
\* returned true (purged), or threw.
Returned == {"duplicate", "skipped", "purged"}
Threw == {"configError", "sourceError", "deleteError"}
Settled == Returned \cup Threw

\* Started for a loop that does not await the calls it starts.
StartedNone == {}

\* The candidates whose call has been started.
Started == {u \in 1..Len(deletedDocuments) : u <= chunksStarted * ChunkSize}

\* await Promise.all(...) rejects when the first call of the chunk throws; the
\* run then throws, whatever the other calls still do.
RunAfterThrow == IF runPc = "Processing" THEN "Error" ELSE runPc

\* part_000:185-212: the environment test, the query for the deleted rows
\* and the split into chunks.
Fetch ==
    /\ runPc = "Fetching"
    /\ IF ~env.uri
       THEN /\ runPc' = "Error"
            /\ UNCHANGED deletedDocuments
       ELSE /\ runPc' = "Processing"
            /\ deletedDocuments' = SelectDeleted(rows)
    /\ UNCHANGED <<env, rows, blobs, chunksStarted, seen, deletedCount,
                   reported, unitPc, files, deleteCalls, pendingDeletes,
                   failedDeletes, lastRun>>

\* StartOf without the test of seen.
StartOfNoSeen(d) ==
    IF ~env.bucket \/ ~env.account THEN "configError" ELSE "liveQuery"

\* part_000:259-272: the synchronous start of scrubDocument, up to the first
\* await.
StartOf(d) ==
    IF ~env.bucket \/ ~env.account THEN "configError"
    ELSE IF UidOf(d.data_source, d.document_id, d.hash) \in seen
         THEN "duplicate"
         ELSE "liveQuery"

\* part_000:217-240: one iteration of the loop over the chunks, entered once
\* every call of the chunk before has returned: chunk.map starts the call of
\* every candidate of the chunk, each running to its first await.
ProcessChunk ==
    /\ runPc = "Processing"
    /\ chunksStarted < NumChunks(Len(deletedDocuments))
    /\ \A u \in Started : unitPc[u] \in Returned
    /\ LET chunk == ChunkUnits(chunksStarted, Len(deletedDocuments))
           next == [u \in Units |->
                      IF u \in chunk THEN StartOf(deletedDocuments[u])
                      ELSE unitPc[u]]
       IN /\ unitPc' = next
          /\ runPc' = IF \E u \in chunk : next[u] \in Threw
                      THEN "Error" ELSE runPc
    /\ chunksStarted' = chunksStarted + 1
    /\ UNCHANGED <<env, rows, blobs, deletedDocuments, seen, deletedCount,
                   reported, files, deleteCalls, pendingDeletes,
                   failedDeletes, lastRun>>

\* part_000:217, 243-245: the loop ends after the last chunk.
FinishLoop ==
    /\ runPc = "Processing"
    /\ chunksStarted = NumChunks(Len(deletedDocuments))
    /\ \A u \in Started : unitPc[u] \in Returned
    /\ runPc' = "Reporting"
    /\ UNCHANGED <<env, rows, blobs, deletedDocuments, chunksStarted, seen,
                   deletedCount, reported, unitPc, files, deleteCalls,
                   pendingDeletes, failedDeletes, lastRun>>

\* The argument of reportSuccess at part_000:247: the object {}, a record
\* with no field.
SuccessArgument == <<>>

\* part_000:247
Report ==
    /\ runPc = "Reporting"
    /\ reported' = Append(reported, SuccessArgument)
    /\ runPc' = "Done"
    /\ UNCHANGED <<env, rows, blobs, deletedDocuments, chunksStarted, seen,
                   deletedCount, unitPc, files, deleteCalls, pendingDeletes,
                   failedDeletes, lastRun>>

(***************************************************************************)
(* scrubDocument (part_000:250-363), one action per awaited call.          *)
(***************************************************************************)
\* LiveQueryDone with a skip that adds the uid to seen.
LiveQueryDoneMarksSeen(u) ==
    /\ unitPc[u] = "liveQuery"
    /\ LET d == deletedDocuments[u]
           live == MoreRecentSameHash(rows, d.data_source, d.document_id,
                                      d.hash, d.created) # {}
       IN /\ unitPc' = [unitPc EXCEPT ![u] =
                          IF live THEN "skipped" ELSE "sourceQuery"]
          /\ seen' = IF live
                     THEN seen \cup {UidOf(d.data_source, d.document_id,
                                           d.hash)}
                     ELSE seen
    /\ UNCHANGED <<env, rows, blobs, runPc, deletedDocuments, chunksStarted,
                   deletedCount, reported, files, deleteCalls,
                   pendingDeletes, failedDeletes, lastRun>>

\* part_000:272-287, then the query of 289 is sent.
LiveQueryDone(u) ==
    /\ unitPc[u] = "liveQuery"
    /\ LET d == deletedDocuments[u]
       IN unitPc' = [unitPc EXCEPT ![u] =
            IF MoreRecentSameHash(rows, d.data_source, d.document_id, d.hash,
                                  d.created) # {}
            THEN "skipped" ELSE "sourceQuery"]
    /\ UNCHANGED <<env, rows, blobs, runPc, deletedDocuments, chunksStarted,
                   seen, deletedCount, reported, files, deleteCalls,
                   pendingDeletes, failedDeletes, lastRun>>

\* part_000:289-318: the source row, or the throw when there is none.
SourceQueryDone(u) ==
    /\ unitPc[u] = "sourceQuery"
    /\ IF SelectDataSource(deletedDocuments[u].data_source) = {}
       THEN /\ unitPc' = [unitPc EXCEPT ![u] = "sourceError"]
            /\ runPc' = RunAfterThrow
       ELSE /\ unitPc' = [unitPc EXCEPT ![u] = "getFiles"]
            /\ UNCHANGED runPc
    /\ UNCHANGED <<env, rows, blobs, deletedDocuments, chunksStarted, seen,
                   deletedCount, reported, files, deleteCalls, pendingDeletes,
                   failedDeletes, lastRun>>

\* The path prefix of a candidate whose source row exists (part_000:302-312).
PrefixOf(d) ==
    PathOf(CHOOSE s \in DataSourceTable : s.id = d.data_source,
           d.document_id, d.hash)

\* part_000:320-334: the names f.delete() is called on.
ToDelete(listed, seenNow) == {f \in listed : f \notin seenNow}

\* part_000:316-318: the bucket answers the listing with the objects it
\* holds under the prefix at that moment.
ListFiles(u) ==
    /\ unitPc[u] = "getFiles"
    /\ files' = [files EXCEPT ![u] =
                   GetFiles(blobs, PrefixOf(deletedDocuments[u]))]
    /\ unitPc' = [unitPc EXCEPT ![u] = "listed"]
    /\ UNCHANGED <<env, rows, blobs, runPc, deletedDocuments, chunksStarted,
                   seen, deletedCount, reported, deleteCalls, pendingDeletes,
                   failedDeletes, lastRun>>

\* part_000:320-337: the call resumes with the listing; delete is called on
\* every listed file not in seen as seen is then; with nothing to await, the
\* purge query is sent.
GetFilesDone(u) ==
    /\ unitPc[u] = "listed"
    /\ LET calls == ToDelete(files[u], seen)
       IN /\ deleteCalls' = [deleteCalls EXCEPT ![u] = calls]
          /\ pendingDeletes' = [pendingDeletes EXCEPT ![u] = calls]
          /\ unitPc' = [unitPc EXCEPT ![u] =
                          IF calls = {} THEN "purge" ELSE "deleting"]
    /\ UNCHANGED <<env, rows, blobs, runPc, deletedDocuments, chunksStarted,
                   seen, deletedCount, reported, files, failedDeletes,
                   lastRun>>

\* SettleDelete for a Promise.all that never resolves.
SettleDeleteStuck(pc, ok, left) ==
    IF pc # "deleting" THEN pc
    ELSE IF ~ok THEN "deleteError"
    ELSE pc

\* SettleDelete with the purge sent after the first delete that succeeds,
\* without waiting for the others.
SettleDeleteFirstSuccess(pc, ok, left) ==
    IF pc # "deleting" THEN pc
    ELSE IF ~ok THEN "deleteError"
    ELSE "purge"

\* SettleDelete with the deletes awaited by Promise.allSettled: a failure is
\* not thrown, the purge is sent once every delete has settled.
SettleDeleteAllSettled(pc, ok, left) ==
    IF pc = "deleting" /\ left = {} THEN "purge" ELSE pc

\* The position of a call after one of its deletes settled, with `left`
\* still pending: Promise.all (part_000:320) rejects with the first failure
\* and resolves with the last success; the purge query is then sent.
SettleDelete(pc, ok, left) ==
    IF pc # "deleting" THEN pc
    ELSE IF ~ok THEN "deleteError"
    ELSE IF left = {} THEN "purge"
    ELSE pc

\* DeleteDone with the name added to seen as soon as its delete succeeds.
DeleteDoneMarksSeen(u, f, ok) ==
    /\ f \in pendingDeletes[u]
    /\ pendingDeletes' = [pendingDeletes EXCEPT ![u] = @ \ {f}]
    /\ blobs' = IF ok THEN blobs \ {f} ELSE blobs
    /\ seen' = IF ok THEN seen \cup {f} ELSE seen
    /\ failedDeletes' = IF ok THEN failedDeletes
                        ELSE [failedDeletes EXCEPT ![u] = @ \cup {f}]
    /\ unitPc' = [unitPc EXCEPT ![u] =
                    SettleDelete(@, ok, pendingDeletes[u] \ {f})]
    /\ runPc' = IF unitPc'[u] \in Threw /\ unitPc[u] \notin Threw
                THEN RunAfterThrow ELSE runPc
    /\ UNCHANGED <<env, rows, deletedDocuments, chunksStarted,
                   deletedCount, reported, files, deleteCalls, lastRun>>

\* One f.delete() settles (part_000:332). It succeeds and the object is gone,
\* or it fails and the object stays; after the first failure the other
\* deletes of the call stay in flight.
DeleteDone(u, f, ok) ==
    /\ f \in pendingDeletes[u]
    /\ pendingDeletes' = [pendingDeletes EXCEPT ![u] = @ \ {f}]
    /\ blobs' = IF ok THEN blobs \ {f} ELSE blobs
    /\ failedDeletes' = IF ok THEN failedDeletes
                        ELSE [failedDeletes EXCEPT ![u] = @ \cup {f}]
    /\ unitPc' = [unitPc EXCEPT ![u] =
                    SettleDelete(@, ok, pendingDeletes[u] \ {f})]
    /\ runPc' = IF unitPc'[u] \in Threw /\ unitPc[u] \notin Threw
                THEN RunAfterThrow ELSE runPc
    /\ UNCHANGED <<env, rows, deletedDocuments, chunksStarted, seen,
                   deletedCount, reported, files, deleteCalls, lastRun>>

\* part_000:357-360: what the call adds to seen.
MarkSeen(seenNow, listed, uid) == seenNow \cup listed \cup {uid}

\* part_000:337-362 and 235-237: the DELETE is applied, the names and the uid
\* are added to seen, the call returns true and is counted.
PurgeDone(u) ==
    /\ unitPc[u] = "purge"
    /\ LET d == deletedDocuments[u]
       IN /\ rows' = PurgeDeleted(rows, d.data_source, d.document_id, d.hash)
          /\ seen' = MarkSeen(seen, files[u],
                              UidOf(d.data_source, d.document_id, d.hash))
    /\ unitPc' = [unitPc EXCEPT ![u] = "purged"]
    /\ deletedCount' = deletedCount + 1
    /\ UNCHANGED <<env, blobs, runPc, deletedDocuments, chunksStarted,
                   reported, files, deleteCalls, pendingDeletes,
                   failedDeletes, lastRun>>

\* UnitStep with the calls cancelled once the run has thrown.
UnitStepCancelled(u) ==
    /\ runPc # "Error"
    /\ \/ LiveQueryDone(u)
       \/ SourceQueryDone(u)
       \/ ListFiles(u)
       \/ GetFilesDone(u)
       \/ \E f \in pendingDeletes[u] : \E ok \in BOOLEAN : DeleteDone(u, f, ok)
       \/ PurgeDone(u)

\* The steps of the call of candidate u. Nothing in the code cancels a call:
\* they stay enabled after the run has thrown.
UnitStep(u) ==
    \/ LiveQueryDone(u)
    \/ SourceQueryDone(u)
    \/ ListFiles(u)
    \/ GetFilesDone(u)
    \/ \E f \in pendingDeletes[u] : \E ok \in BOOLEAN : DeleteDone(u, f, ok)
    \/ PurgeDone(u)

Next ==
    \/ Fetch
    \/ ProcessChunk
    \/ FinishLoop
    \/ Report
    \/ \E u \in Units : UnitStep(u)

Spec == Init /\ [][Next]_vars

\* Every awaited external call eventually settles and the event loop runs the
\* continuation of every settled call.
LiveSpec == Spec /\ \A u \in Units : WF_vars(UnitStep(u))

(***************************************************************************)
(* The write path, concurrent with a run. It is no part of the run: it     *)
(* stores the objects of a new version and inserts its row.                *)
(***************************************************************************)
Ingested == {r \in rows : r.id > MaxRows}

\* The calls between their first await and their return or throw.
InFlightPcs ==
    {"liveQuery", "sourceQuery", "getFiles", "listed", "deleting", "purge"}

\* A new active version with the content of candidate d, created after every
\* row of the initial table.
NewVersion(d) ==
    [id |-> MaxRows + 1 + Cardinality(Ingested), created |-> MaxCreated + 1,
     data_source |-> d.data_source, document_id |-> d.document_id,
     hash |-> d.hash, status |-> "active"]

Ingest(u) ==
    /\ unitPc[u] \in InFlightPcs
    /\ Cardinality(Ingested) < MaxIngest
    /\ SelectDataSource(deletedDocuments[u].data_source) # {}
    /\ rows' = rows \cup {NewVersion(deletedDocuments[u])}
    /\ blobs' = blobs \cup ObjectNames(PrefixOf(deletedDocuments[u]))
    /\ UNCHANGED <<env, runPc, deletedDocuments, chunksStarted, seen,
                   deletedCount, reported, unitPc, files, deleteCalls,
                   pendingDeletes, failedDeletes, lastRun>>

NextIngest ==
    \/ Next
    \/ \E u \in Units : Ingest(u)

SpecIngest == Init /\ [][NextIngest]_vars

(***************************************************************************)
(* Vocabulary of the properties.                                           *)
(***************************************************************************)
SameVersion(r, d) ==
    /\ r.data_source = d.data_source
    /\ r.document_id = d.document_id
    /\ r.hash = d.hash

HasSource(r) == SelectDataSource(r.data_source) # {}

LiveRows == {r \in rows : r.status # "deleted"}

\* The positions of a call from the moment the bucket has answered its listing.
HasListed == {"listed", "deleting", "purge", "purged", "deleteError"}

\* The candidates, by position.
Candidates == 1..Len(deletedDocuments)

\* No call is between two steps and no delete is in flight: the run and
\* everything it started have come to rest.
Quiescent ==
    /\ runPc \in {"Done", "Error"}
    /\ \A u \in Units : unitPc[u] \notin InFlightPcs /\ pendingDeletes[u] = {}

(***************************************************************************)
(* C1. No object under the path prefix of a version (data_source,          *)
(* document_id, hash) is deleted while a row of that version with a status *)
(* other than deleted exists, whatever that row's created value.           *)
(* Stated as a property of every step: a step that removes an object       *)
(* removes none that a live row addresses.                                 *)
(***************************************************************************)
C1_NoDeleteWhileLive ==
    [][\A f \in blobs \ blobs' :
          \A r \in LiveRows : HasSource(r) => ~StartsWith(f, PrefixOf(r))]_vars

(***************************************************************************)
(* C2. Dedup-preserves-live-content: when the run and its calls have come  *)
(* to rest, every candidate d for which a live row of the same version     *)
(* with created >= d.created exists still has its row, and every object    *)
(* stored under its prefix is still in the bucket.                         *)
(***************************************************************************)
C2_DedupPreservesLiveContent ==
    Quiescent =>
      \A u \in Candidates :
        LET d == deletedDocuments[u]
        IN MoreRecentSameHash(rows, d.data_source, d.document_id, d.hash,
                              d.created) # {}
           => /\ d \in rows
              /\ HasSource(d) => ObjectNames(PrefixOf(d)) \subseteq blobs

(***************************************************************************)
(* C3. Safe under concurrent ingestion: when the write path has inserted a *)
(* new active version with the content of a candidate while the            *)
(* candidate's call was in progress, then once the run and its calls have  *)
(* come to rest the objects of that version are still in the bucket.       *)
(***************************************************************************)
C3_SafeUnderIngestion ==
    Quiescent =>
      \A r \in Ingested : ObjectNames(PrefixOf(r)) \subseteq blobs

(***************************************************************************)
(* C4. Within one call the purge query is sent only after every delete of  *)
(* the call has succeeded: in every state (the process may stop in any of  *)
(* them) a call that has sent its purge has no delete pending or failed,   *)
(* and no object it listed is still in the bucket.                         *)
(***************************************************************************)
C4_PurgeAfterDeletes ==
    \A u \in Units :
      unitPc[u] \in {"purge", "purged"} =>
        /\ pendingDeletes[u] = {}
        /\ failedDeletes[u] = {}
        /\ files[u] \cap blobs = {}

\* A call has purged the rows of its version after deleting every object
\* stored under the prefix.
C4_Witness ==
    \E u \in Candidates :
      /\ unitPc[u] = "purged"
      /\ deleteCalls[u] = ObjectNames(PrefixOf(deletedDocuments[u]))
      /\ deletedDocuments[u] \notin rows

(***************************************************************************)
(* C5. Within-run duplicate collapse: of two candidates of one run with    *)
(* the same (data_source, document_id, hash), in the same chunk or not,    *)
(* at most one lists and deletes objects, and when both calls have         *)
(* returned without a live match exactly one has purged and the other is a *)
(* skipped duplicate.                                                      *)
(***************************************************************************)
C5_DuplicateCollapse ==
    \A u, v \in Candidates :
      (u < v /\ SameVersion(deletedDocuments[u], deletedDocuments[v])) =>
        /\ ~(unitPc[u] \in HasListed /\ unitPc[v] \in HasListed)
        /\ (unitPc[u] \in {"duplicate", "purged"}
            /\ unitPc[v] \in {"duplicate", "purged"})
           => (unitPc[u] = "purged") # (unitPc[v] = "purged")

(***************************************************************************)
(* C6. In one run every object receives at most one delete call: no two    *)
(* calls of scrubDocument call delete on the same name.                    *)
(***************************************************************************)
C6_AtMostOneDeleteCall ==
    \A u, v \in Units : u # v => deleteCalls[u] \cap deleteCalls[v] = {}

(***************************************************************************)
(* C7. Integrity-fatal isolation: a candidate whose source row is absent   *)
(* does not abort the run. When the run and its calls have come to rest    *)
(* and the only calls that threw are those with no source row, every       *)
(* candidate has been started and success has been reported; stated for    *)
(* the runs that have more than one chunk.                                 *)
(***************************************************************************)
C7_SourceErrorDoesNotAbort ==
    (/\ Quiescent
     /\ Len(deletedDocuments) > ChunkSize
     /\ \E u \in Units : unitPc[u] = "sourceError"
     /\ \A u \in Units : unitPc[u] \notin {"configError", "deleteError"})
    => /\ runPc = "Done"
       /\ \A u \in Candidates : unitPc[u] # "idle"

(***************************************************************************)
(* C8. Transient per-object failure keeps metadata: a call one of whose    *)
(* deletes failed never sends the purge query and never returns true; it   *)
(* adds neither its uid nor a listed name to seen (what is in seen was     *)
(* added by another call, one that purged); it is not counted; and the     *)
(* deleted row of its candidate stays unless another call of the same      *)
(* version purged it.                                                      *)
(***************************************************************************)
C8_FailedDeleteKeepsMetadata ==
    /\ deletedCount = Cardinality({v \in Units : unitPc[v] = "purged"})
    /\ \A u \in Candidates :
         LET d == deletedDocuments[u]
             purgedOthers == {v \in Candidates \ {u} : unitPc[v] = "purged"}
         IN failedDeletes[u] # {} =>
              /\ unitPc[u] = "deleteError"
              /\ UidOf(d.data_source, d.document_id, d.hash) \in seen
                   => \E v \in purgedOthers : SameVersion(deletedDocuments[v], d)
              /\ \A f \in files[u] \cap seen :
                   \E v \in purgedOthers : f \in files[v]
              /\ d \in rows
                   \/ \E v \in purgedOthers : SameVersion(deletedDocuments[v], d)

\* One delete of a call failed after another had succeeded, everything has
\* come to rest, and the row of the candidate is still there.
C8_Witness ==
    \E u \in Candidates :
      /\ Quiescent
      /\ failedDeletes[u] # {}
      /\ deleteCalls[u] \ (failedDeletes[u] \cup blobs) # {}
      /\ deletedDocuments[u] \in rows

(***************************************************************************)
(* C9. A failed delete in one call does not stop the run. When the run and *)
(* its calls have come to rest and the only calls that threw are those     *)
(* with a failed delete, every candidate has been started and success has  *)
(* been reported; stated for the runs that have more than one chunk.       *)
(***************************************************************************)
C9_DeleteErrorDoesNotAbort ==
    (/\ Quiescent
     /\ Len(deletedDocuments) > ChunkSize
     /\ \E u \in Units : unitPc[u] = "deleteError"
     /\ \A u \in Units : unitPc[u] \notin {"configError", "sourceError"})
    => /\ runPc = "Done"
       /\ \A u \in Candidates : unitPc[u] # "idle"

(***************************************************************************)
(* C10. A call that threw (no source row, or a failed delete) does not     *)
(* cancel the other calls of its chunk: every sibling that is in flight    *)
(* (awaiting a query, the listing, a delete or the purge) when the call    *)
(* has thrown goes on to its own outcome, with none of its deletes left    *)
(* pending and its purge applied if it was sent.                           *)
(***************************************************************************)
InFlight(v) == unitPc[v] \in InFlightPcs \/ pendingDeletes[v] # {}

C10_SiblingsNotCancelled ==
    \A u, v \in Units :
      (/\ u # v
       /\ unitPc[u] \in {"sourceError", "deleteError"}
       /\ InFlight(v))
      ~> (unitPc[v] \in Settled /\ pendingDeletes[v] = {})

\* After a sibling threw and the run was rejected, a call of the same chunk
\* deleted every object it listed and purged its rows.
C10_Witness ==
    \E u, v \in Candidates :
      /\ u # v
      /\ unitPc[u] = "sourceError"
      /\ runPc = "Error"
      /\ unitPc[v] = "purged"
      /\ deleteCalls[v] # {}
      /\ files[v] \cap blobs = {}

(***************************************************************************)
(* C11. When a required configuration value is missing (the database URI,  *)
(* the bucket name or the service-account credential), the run ends in     *)
(* error before any processing: the candidate query is not issued, no call *)
(* is started, nothing is listed, deleted or purged, and success is not    *)
(* reported, for every candidate list, the empty one included.             *)
(***************************************************************************)
C11_ConfigErrorBeforeProcessing ==
    (~env.uri \/ ~env.bucket \/ ~env.account) =>
      /\ runPc \in {"Fetching", "Error"}
      /\ deletedDocuments = <<>>
      /\ \A u \in Units : unitPc[u] = "idle"
      /\ reported = <<>>
      /\ blobs = StoredObjects(rows)

(***************************************************************************)
(* Re-invocation. The caller of the run is no part of the source: it       *)
(* starts the function again with a fresh seen set and a fresh count, on   *)
(* the database and the bucket as the run before left them.                *)
(***************************************************************************)
\* How the run that ends here went: it reported success, one of its deletes
\* failed, what it counted, and the candidates whose DELETE was sent but not
\* applied when the process stopped.
RunRecord(crashed) ==
    [complete |-> runPc = "Done" /\ ~crashed,
     failed |-> \E u \in Units : failedDeletes[u] # {},
     deletedCount |-> deletedCount,
     awaitingPurge |-> IF crashed
                       THEN {deletedDocuments[u] :
                               u \in {v \in Candidates : unitPc[v] = "purge"}}
                       ELSE {}]

\* A new process: nothing of the memory of the one before is left, calls in
\* flight included.
Restart(crashed) ==
    /\ lastRun' = <<RunRecord(crashed)>>
    /\ runPc' = "Fetching"
    /\ deletedDocuments' = <<>>
    /\ chunksStarted' = 0
    /\ seen' = {}
    /\ deletedCount' = 0
    /\ reported' = <<>>
    /\ unitPc' = [u \in Units |-> "idle"]
    /\ files' = [u \in Units |-> {}]
    /\ deleteCalls' = [u \in Units |-> {}]
    /\ pendingDeletes' = [u \in Units |-> {}]
    /\ failedDeletes' = [u \in Units |-> {}]
    /\ UNCHANGED <<env, rows, blobs>>

\* The run is started again once the run before has come to rest.
Rerun ==
    /\ Quiescent
    /\ Restart(FALSE)

\* The first process stops while the DELETE of a call is in flight, after
\* every delete of that call has succeeded; the DELETE is not applied.
Crash ==
    /\ lastRun = <<>>
    /\ \E u \in Candidates : unitPc[u] = "purge"
    /\ Restart(TRUE)

\* A step of the run; the transient failures of the bucket stop with the
\* first run.
RunStep ==
    /\ Next
    /\ lastRun # <<>> => failedDeletes' = failedDeletes

NextRerun ==
    \/ RunStep
    \/ Rerun
    \/ Crash

SpecRerun == Init /\ [][NextRerun]_vars

\* Every run comes to rest (its calls settle, its continuations run) and the
\* caller starts the next one.
FairRerun == SpecRerun /\ WF_vars(RunStep) /\ WF_vars(Rerun)

\* A deleted row that a run can clean: its source has a row and no row of
\* its version with another status was created at or after it.
Cleanable(r) ==
    /\ r.status = "deleted"
    /\ HasSource(r)
    /\ MoreRecentSameHash(rows, r.data_source, r.document_id, r.hash,
                          r.created) = {}

\* No cleanable row is left, and every object left is addressed by a row
\* that is left.
Converged ==
    /\ \A r \in rows : ~Cleanable(r)
    /\ blobs \subseteq StoredObjects(rows)

(***************************************************************************)
(* C12. Convergence by re-invocation: when the run is started again and    *)
(* again and the transient delete failures have stopped, eventually every  *)
(* deleted version with no live match has no object under its prefix and   *)
(* no metadata row, for good, also when another candidate fails in every   *)
(* run (a candidate of the first chunk whose source has no row). The       *)
(* configuration is complete.                                              *)
(***************************************************************************)
C12_ConvergenceByReinvocation ==
    (env.uri /\ env.bucket /\ env.account) => <>[]Converged

(***************************************************************************)
(* C13. Idempotence: with no write from outside and no failure, the run    *)
(* that follows a complete run leaves the rows and the bucket exactly as   *)
(* that run left them, calls no delete on any object, counts no purged     *)
(* unit and completes. Stated on every step of the following run.          *)
(***************************************************************************)
AfterCompleteRun ==
    /\ lastRun # <<>>
    /\ lastRun[1].complete
    /\ ~lastRun[1].failed

C13_Idempotence ==
    [][(AfterCompleteRun /\ lastRun' = lastRun) =>
         /\ rows' = rows
         /\ blobs' = blobs
         /\ \A u \in Units : deleteCalls'[u] = {}
         /\ deletedCount' = 0
         /\ runPc' # "Error"]_vars

\* The second run has reported success after a first run that purged the
\* rows of a candidate; a candidate with a live match is left and the second
\* run skipped it again.
C13_Witness ==
    /\ AfterCompleteRun
    /\ lastRun[1].deletedCount > 0
    /\ runPc = "Done"
    /\ Len(reported) = 1
    /\ \E u \in Candidates : unitPc[u] = "skipped"

(***************************************************************************)
(* C14. Crash-safety: when the process stopped after every delete of a     *)
(* call had succeeded and before its DELETE was applied, the call of the   *)
(* next run for the same version, unless a live match makes it skip, is    *)
(* answered an empty listing, calls no delete and goes on to the DELETE;   *)
(* once it has returned true no deleted row of the version is left, and a  *)
(* next run that reports success has purged the row of the stopped call.   *)
(***************************************************************************)
C14_CrashSafety ==
    \A d \in (IF lastRun = <<>> THEN {} ELSE lastRun[1].awaitingPurge) :
      /\ \A u \in Candidates :
           SameVersion(deletedDocuments[u], d) =>
             /\ unitPc[u] \notin {"sourceError", "deleteError", "deleting"}
             /\ unitPc[u] \in HasListed => files[u] = {}
             /\ deleteCalls[u] = {}
             /\ unitPc[u] = "purged" =>
                  \A r \in rows : SameVersion(r, d) => r.status # "deleted"
      /\ runPc = "Done" => d \notin rows

\* The run after the stop has reported success: the call for the row whose
\* DELETE was lost listed nothing, deleted nothing and purged the row.
C14_Witness ==
    /\ lastRun # <<>>
    /\ runPc = "Done"
    /\ \E d \in lastRun[1].awaitingPurge : \E u \in Candidates :
         /\ deletedDocuments[u] = d
         /\ unitPc[u] = "purged"
         /\ files[u] = {}
         /\ deleteCalls[u] = {}
         /\ d \notin rows

(***************************************************************************)
(* C15. No orphaned blobs after one run: when a run with a complete        *)
(* configuration in which no delete failed has come to rest, every         *)
(* candidate whose source has a row and that has no row of its version     *)
(* with another status created at or after it has no object left under its *)
(* prefix and no deleted row of its version left, whatever happened to the *)
(* other candidates of the run.                                            *)
(***************************************************************************)
C15_NoOrphanedBlobs ==
    (/\ Quiescent
     /\ env.uri /\ env.bucket /\ env.account
     /\ \A u \in Units : failedDeletes[u] = {})
    => \A u \in Candidates :
         LET d == deletedDocuments[u]
         IN (/\ HasSource(d)
             /\ MoreRecentSameHash(rows, d.data_source, d.document_id,
                                   d.hash, d.created) = {})
            => /\ GetFiles(blobs, PrefixOf(d)) = {}
               /\ \A r \in rows : SameVersion(r, d) => r.status # "deleted"

(***************************************************************************)
(* C16. Bounded sequential chunks: at any moment at most ChunkSize calls   *)
(* are in flight (the chunk size, 32 in the code), all calls in flight are *)
(* of the same chunk, and no call of a chunk has been started before every *)
(* call of every chunk before it has finished.                             *)
(***************************************************************************)
ChunkOf(u) == (u - 1) \div ChunkSize

C16_BoundedSequentialChunks ==
    /\ Cardinality({u \in Units : InFlight(u)}) <= ChunkSize
    /\ \A u, v \in Units :
         InFlight(u) /\ InFlight(v) => ChunkOf(u) = ChunkOf(v)
    /\ \A u, v \in Candidates :
         (ChunkOf(u) < ChunkOf(v) /\ unitPc[v] # "idle")
         => unitPc[u] \in Returned /\ pendingDeletes[u] = {}

\* A full chunk was in flight and has finished after deleting objects; the
\* call of the next chunk is now in flight alone.
C16_Witness ==
    /\ Len(deletedDocuments) > ChunkSize
    /\ \A u \in 1..ChunkSize : unitPc[u] = "purged" /\ deleteCalls[u] # {}
    /\ InFlight(ChunkSize + 1)

(***************************************************************************)
(* C17. The purge of a call removes only rows with status deleted of the   *)
(* call's version (data_source, document_id, hash): in every step of every *)
(* interleaving no row is added or changed, and every row that goes is a   *)
(* deleted row of the version of a call whose DELETE is applied in that    *)
(* step.                                                                   *)
(***************************************************************************)
C17_PurgeFrame ==
    [][/\ rows' \subseteq rows
       /\ \A r \in rows \ rows' :
            /\ r.status = "deleted"
            /\ \E u \in Candidates :
                 /\ unitPc[u] = "purge"
                 /\ unitPc'[u] = "purged"
                 /\ SameVersion(r, deletedDocuments[u])]_vars

\* A call has purged the deleted rows of its version: an active row of the
\* same version and a deleted row of another version are still there.
C17_Witness ==
    \E u \in Candidates :
      /\ unitPc[u] = "purged"
      /\ deletedDocuments[u] \notin rows
      /\ \E r \in rows :
           SameVersion(r, deletedDocuments[u]) /\ r.status = "active"
      /\ \E r \in rows :
           ~SameVersion(r, deletedDocuments[u]) /\ r.status = "deleted"

(***************************************************************************)
(* C18. The count of purged units at the end of a run is the number of     *)
(* distinct versions (data_source, document_id, hash) whose objects and    *)
(* rows the run purged: no version is counted twice, also when several     *)
(* candidates of one version are processed at once in one chunk.           *)
(***************************************************************************)
PurgedVersions ==
    {UidOf(deletedDocuments[u].data_source, deletedDocuments[u].document_id,
           deletedDocuments[u].hash) :
       u \in {v \in Candidates : unitPc[v] = "purged"}}

C18_CountsDistinctVersions ==
    Quiescent => deletedCount = Cardinality(PurgedVersions)

(***************************************************************************)
(* C19. On success the run hands the reporting collaborator a summary with *)
(* a field unitsScrubbed whose value is the number of units the run        *)
(* purged.                                                                 *)
(***************************************************************************)
C19_ReportsUnitsScrubbed ==
    \A i \in 1..Len(reported) :
      /\ "unitsScrubbed" \in DOMAIN reported[i]
      /\ reported[i].unitsScrubbed = deletedCount

(***************************************************************************)
(* C20. The run goes through its phases in the order Fetching, Batching,   *)
(* Processing, Reporting, Done only (the split into chunks is the          *)
(* synchronous continuation of the candidate query, inside the step that   *)
(* leaves Fetching; a throw ends the run from Fetching or Processing). The *)
(* candidate list is fetched once, before any call is started; success is  *)
(* reported at most once, and only after every call of every chunk has     *)
(* finished.                                                               *)
(***************************************************************************)
RunTransitions ==
    {<<"Fetching", "Processing">>, <<"Processing", "Reporting">>,
     <<"Reporting", "Done">>, <<"Fetching", "Error">>,
     <<"Processing", "Error">>}

AllFinished ==
    \A u \in Candidates : unitPc[u] \in Returned /\ pendingDeletes[u] = {}

C20_RunStateMachine ==
    [][/\ runPc' # runPc => <<runPc, runPc'>> \in RunTransitions
       /\ deletedDocuments' # deletedDocuments =>
            runPc = "Fetching" /\ runPc' = "Processing"
       /\ runPc' = "Fetching" => \A u \in Units : unitPc'[u] = "idle"
       /\ Len(reported') <= 1
       /\ reported' # reported =>
            runPc = "Reporting" /\ runPc' = "Done" /\ AllFinished
       /\ runPc' \in {"Reporting", "Done"} => AllFinished']_vars

\* Success has been reported once, after the calls of two chunks finished,
\* one of them having purged its rows.
C20_Witness ==
    /\ runPc = "Done"
    /\ Len(reported) = 1
    /\ Len(deletedDocuments) > ChunkSize
    /\ AllFinished
    /\ \E u \in Candidates : unitPc[u] = "purged"

(***************************************************************************)
(* C21. A call that starts with its uid (data_source, document_id, hash)   *)
(* in seen returns false at once: it sends no liveness query, no source    *)
(* query, no listing, no delete and no DELETE, is not counted, and the     *)
(* step that starts it leaves seen, the rows and the bucket as they were;  *)
(* the call does nothing afterwards.                                       *)
(***************************************************************************)
UidOfCandidate(u) ==
    UidOf(deletedDocuments[u].data_source, deletedDocuments[u].document_id,
          deletedDocuments[u].hash)

C21_SeenShortCircuit ==
    [][\A u \in 1..Len(deletedDocuments') :
         /\ (/\ unitPc[u] = "idle"
             /\ unitPc'[u] # "idle"
             /\ UidOfCandidate(u)' \in seen)
            => /\ unitPc'[u] = "duplicate"
               /\ seen' = seen
               /\ rows' = rows
               /\ blobs' = blobs
               /\ deletedCount' = deletedCount
         /\ unitPc'[u] = "duplicate"
            => /\ unitPc[u] \in {"idle", "duplicate"}
               /\ files'[u] = {}
               /\ deleteCalls'[u] = {}
               /\ pendingDeletes'[u] = {}
         /\ unitPc[u] = "duplicate" => unitPc'[u] = "duplicate"]_vars

\* A call of the second chunk returned at its start: a call of the first
\* chunk had purged the same version and left its uid in seen.
C21_Witness ==
    \E u, v \in Candidates :
      /\ unitPc[v] = "purged"
      /\ unitPc[u] = "duplicate"
      /\ UidOfCandidate(u) = UidOfCandidate(v)
      /\ UidOfCandidate(u) \in seen

(***************************************************************************)
(* C22. A call whose liveness query finds a live match returns false: the  *)
(* step that answers the query leaves the rows, the bucket, seen and the   *)
(* count as they were, the call has sent no source query, listing, delete  *)
(* or DELETE, and it does nothing afterwards.                              *)
(***************************************************************************)
LiveMatch(u) ==
    MoreRecentSameHash(rows, deletedDocuments[u].data_source,
                       deletedDocuments[u].document_id,
                       deletedDocuments[u].hash,
                       deletedDocuments[u].created) # {}

C22_LiveMatchFrame ==
    [][\A u \in Candidates :
         /\ (/\ unitPc[u] = "liveQuery"
             /\ unitPc'[u] # "liveQuery"
             /\ LiveMatch(u))
            => /\ unitPc'[u] = "skipped"
               /\ rows' = rows
               /\ blobs' = blobs
               /\ seen' = seen
               /\ deletedCount' = deletedCount
         /\ unitPc'[u] = "skipped"
            => /\ unitPc[u] \in {"liveQuery", "skipped"}
               /\ files'[u] = {}
               /\ deleteCalls'[u] = {}
               /\ pendingDeletes'[u] = {}
         /\ unitPc[u] = "skipped" => unitPc'[u] = "skipped"]_vars

\* The run is at rest with a skipped call: the live row, the deleted row of
\* the candidate and the objects under its prefix are all still there, and
\* its uid is not in seen.
C22_Witness ==
    \E u \in Candidates :
      /\ Quiescent
      /\ unitPc[u] = "skipped"
      /\ LiveMatch(u)
      /\ deletedDocuments[u] \in rows
      /\ HasSource(deletedDocuments[u])
      /\ ObjectNames(PrefixOf(deletedDocuments[u])) \subseteq blobs
      /\ UidOfCandidate(u) \notin seen

(***************************************************************************)
(* C23. The liveness query of a call answers with a match exactly when a   *)
(* row exists with the data_source, document_id and hash of the candidate, *)
(* a status other than deleted and created >= the created of the           *)
(* candidate: a live row created at the same time is a match, a live row   *)
(* created before is none. Stated on the step that answers the query: the  *)
(* call returns false there exactly when such a row exists.                *)
(***************************************************************************)
C23_LivenessQueryExact ==
    [][\A u \in Candidates :
         (unitPc[u] = "liveQuery" /\ unitPc'[u] # "liveQuery")
         => (unitPc'[u] = "skipped"
             <=> \E r \in rows :
                   /\ SameVersion(r, deletedDocuments[u])
                   /\ r.status # "deleted"
                   /\ r.created >= deletedDocuments[u].created)]_vars

\* Two candidates of one version against one live row of that version: the
\* candidate created with the live row was skipped, the candidate created
\* after it went on to the source query.
C23_Witness ==
    \E u, v \in Candidates : \E r \in rows :
      /\ r.status # "deleted"
      /\ SameVersion(r, deletedDocuments[u])
      /\ SameVersion(r, deletedDocuments[v])
      /\ r.created = deletedDocuments[u].created
      /\ r.created < deletedDocuments[v].created
      /\ unitPc[u] = "skipped"
      /\ unitPc[v] \notin {"idle", "liveQuery", "skipped", "duplicate"}

(***************************************************************************)
(* C24. The chunks are a partition of the candidate list, for every length *)
(* n >= 0 of the list: in order they make up the list (chunk i holds the   *)
(* positions after those of chunk i - 1, every position is in one chunk),  *)
(* every chunk but the last holds exactly ChunkSize candidates (32 in the  *)
(* code), no chunk is empty; and the call of a candidate is started once:  *)
(* a step that starts calls starts those of the next chunk, each of them   *)
(* not started before, and a run that reports success has started the call *)
(* of every candidate.                                                     *)
(***************************************************************************)
ChunksPartition(n) ==
    LET last == NumChunks(n) - 1
    IN /\ \A u \in 1..n :
            Cardinality({i \in 0..last : u \in ChunkUnits(i, n)}) = 1
       /\ \A i \in 0..last :
            /\ ChunkUnits(i, n) # {}
            /\ ChunkUnits(i, n) \subseteq 1..n
            /\ i < last => Cardinality(ChunkUnits(i, n)) = ChunkSize
            /\ Cardinality(ChunkUnits(i, n)) <= ChunkSize
            /\ \A j \in 0..last : \A u \in ChunkUnits(i, n) :
                 \A v \in ChunkUnits(j, n) : i < j => u < v

C24_ChunksPartition ==
    [][/\ ChunksPartition(Len(deletedDocuments'))
       /\ \A u \in Units :
            (unitPc[u] = "idle" /\ unitPc'[u] # "idle")
            => /\ chunksStarted' = chunksStarted + 1
               /\ u \in ChunkUnits(chunksStarted, Len(deletedDocuments))
       /\ chunksStarted' # chunksStarted
          => \A u \in ChunkUnits(chunksStarted, Len(deletedDocuments)) :
               unitPc[u] = "idle" /\ unitPc'[u] # "idle"
       /\ \A u \in Units : unitPc'[u] = "idle" => unitPc[u] = "idle"
       /\ runPc' \in {"Reporting", "Done"}
          => \A u \in 1..Len(deletedDocuments') : unitPc'[u] # "idle"]_vars

\* A run over a list that does not divide into full chunks has reported
\* success: a full chunk and a shorter last one were started, every
\* candidate's call among them.
C24_Witness ==
    /\ runPc = "Done"
    /\ Len(deletedDocuments) > ChunkSize
    /\ Len(deletedDocuments) % ChunkSize # 0
    /\ chunksStarted = NumChunks(Len(deletedDocuments))
    /\ \A u \in Candidates : unitPc[u] \in Returned

(***************************************************************************)
(* Runs over hashes of different lengths. The hash column is a string      *)
(* (part_000:202) and nothing in the run tests its form; MaxPathRows rows  *)
(* of source 1, one of whose hashes starts with another.                   *)
(***************************************************************************)
MaxPathRows == 2

PathHashes == Hashes \cup {<<"a", "b">>}

PathRowAttrs ==
    [created : {1}, data_source : {1}, document_id : DocumentIds,
     hash : PathHashes, status : Statuses]

InitPath ==
    /\ env = [uri |-> TRUE, bucket |-> TRUE, account |-> TRUE]
    /\ \E n \in 1..MaxPathRows : \E a \in [1..n -> PathRowAttrs] :
         rows = MkTable(n, a)
    /\ blobs = StoredObjects(rows)
    /\ runPc = "Fetching"
    /\ deletedDocuments = <<>>
    /\ chunksStarted = 0
    /\ seen = {}
    /\ deletedCount = 0
    /\ reported = <<>>
    /\ unitPc = [u \in Units |-> "idle"]
    /\ files = [u \in Units |-> {}]
    /\ deleteCalls = [u \in Units |-> {}]
    /\ pendingDeletes = [u \in Units |-> {}]
    /\ failedDeletes = [u \in Units |-> {}]
    /\ lastRun = <<>>

SpecPath == InitPath /\ [][Next]_vars

C26_SeenOnlyAfterPurge ==
    /\ \A x \in seen :
         \E u \in Candidates :
           /\ unitPc[u] = "purged"
           /\ x = UidOfCandidate(u) \/ x \in files[u]
    /\ \A v \in Candidates :
         unitPc[v] = "duplicate"
         => \E u \in Candidates :
              unitPc[u] = "purged" /\ UidOfCandidate(u) = UidOfCandidate(v)

\* A candidate was skipped on a live match; the candidate of the same
\* version after it, created later, had its liveness query answered, went
\* on and purged: seen holds its uid and the names it listed, nothing else.
C26_Witness ==
    \E u, v \in Candidates :
      /\ u < v
      /\ UidOfCandidate(u) = UidOfCandidate(v)
      /\ unitPc[u] = "skipped"
      /\ unitPc[v] = "purged"
      /\ files[v] # {}
      /\ seen = files[v] \cup {UidOfCandidate(v)}

(***************************************************************************)
(* A run in which every external call returns: the candidate query, and    *)
(* every query, listing, delete and DELETE of every call, are answered,    *)
(* and the continuation of every answer runs.                              *)
(***************************************************************************)
FairRun ==
    /\ LiveSpec
    /\ WF_vars(Fetch)
    /\ WF_vars(ProcessChunk)
    /\ WF_vars(FinishLoop)
    /\ WF_vars(Report)

(***************************************************************************)
(* C27. Termination: for every candidate list, when every external call    *)
(* returns, the run ends, in Done with success reported once or in error,  *)
(* and no call is left waiting, on another call or on anything else: every *)
(* call that was started has settled and none of its deletes is pending.   *)
(***************************************************************************)
C27_Termination ==
    <>[](/\ Quiescent
         /\ runPc = "Done" => Len(reported) = 1
         /\ runPc = "Done" => \A u \in Candidates : unitPc[u] \in Returned)

\* A run of a full chunk has ended in error on a failed delete, and the
\* other call of the chunk has gone on to purge its rows; nothing is left in
\* flight.
C27_Witness ==
    /\ Quiescent
    /\ runPc = "Error"
    /\ \E u, v \in Candidates :
         /\ unitPc[u] = "deleteError"
         /\ failedDeletes[u] # {}
         /\ unitPc[v] = "purged"

=============================================================================
